---- MODULE Spec2Model ----
(***************************************************************************)
(* Model of BOR-SDK: bor/core.py (BoRStep, Proof, BoRRun), bor/verify.py   *)
(* (verify_proof) and the proof file written by tests/test_verify.py.      *)
(*                                                                         *)
(* Python objects are passed by reference.  A run's state objects live in  *)
(* run.heap (a sequence of contents; a reference is an index into it), so  *)
(* that a step function that modifies its argument in place is visible to  *)
(* everything that holds the same reference.  The config dict is one       *)
(* object shared by the run and all its steps; run.config is its content.  *)
(* Optional values (None or a value) are sequences of length 0 or 1.       *)
(***************************************************************************)
EXTENDS Integers, Sequences, FiniteSets, TLC

\* run: the BoRRun object; result: the last call made and its outcome;
\* prev: the call made before it and the exception it raised; failed: an
\* add_step call on run has raised; file: the proof file; recorded: what the
\* recording that wrote the proof file did; pair: two sequences of step
\* fingerprints and what finalize returned for each; store: the ProofStore
\* object with what it keeps on disk; saved: the save calls made on it
VARIABLES run, result, prev, failed, file, recorded, pair, store, saved

vars == <<run, result, prev, failed, file, recorded, pair, store, saved>>

-----------------------------------------------------------------------------
(* Bounds of the model *)

\* most steps a run records
MaxSteps == 2

\* characters of a hex digest string
HexLen == 2

None == <<>>
Some(x) == <<x>>

-----------------------------------------------------------------------------
(* bor.hash_utils: canonical encoding and hashing.  The digest is treated  *)
(* as injective: character i of the hex digest of bytes b is the pair      *)
(* <<b, i>>, and a digest string has HexLen characters.                    *)

\* canonical bytes of the fingerprint payload dict: (key, value) pairs in
\* lexicographic key order, tagged with the type
canonical_bytes_dict(payload) ==
    <<"dict", << <<"config", payload.config>>, <<"fn", payload.fn>>,
                 <<"input", payload.input>>, <<"version", payload.version>> >> >>

\* canonical bytes of a str: its characters, tagged with the type
canonical_bytes_str(s) == <<"str", s>>

\* hex digest of canonical bytes
content_hash(bytes) == [i \in 1..HexLen |-> <<bytes, i>>]

\* "".join(strs)
RECURSIVE join(_)
join(strs) == IF strs = <<>> THEN <<>> ELSE Head(strs) \o join(Tail(strs))

-----------------------------------------------------------------------------
(* Step functions handed to add_step.  add and square are the functions of *)
(* tests/test_verify.py; the others are inputs chosen to reach the other   *)
(* paths of add_step: add_v2 is a changed version of add under the same    *)
(* __name__, div raises ZeroDivisionError when offset is 0, not_callable   *)
(* is a value that is no function, reset and setcfg modify the state       *)
(* (resp. config) object they are given in place, crash modifies the       *)
(* state in place (it empties it, content -1) and then raises.             *)

Fns == {"add", "square", "add_v2", "div", "not_callable", "reset", "crash", "setcfg"}

\* callable(fn)
callable(f) == f # "not_callable"

\* fn.__name__
fn_name(f) == IF f = "add_v2" THEN "add" ELSE f

\* fn(x, C, V) raises
fn_raises(f, x, C) ==
    CASE f = "div" -> C.offset = 0
      [] f = "crash" -> TRUE
      [] OTHER -> FALSE

\* content of the state object passed to fn after the call
fn_input_after(f, x, C) ==
    CASE f = "reset" -> 0
      [] f = "crash" -> -1
      [] OTHER -> x

\* content of the config object passed to fn after the call
fn_config_after(f, x, C) ==
    IF f = "setcfg" THEN [C EXCEPT !.offset = 1] ELSE C

\* fn returns the very object it was given (after modifying it)
fn_returns_input(f) == f = "reset"

\* content of the object fn returns
fn_output(f, x, C) ==
    CASE f = "add" -> x + C.offset
      [] f = "square" -> x * x
      [] f = "add_v2" -> x + C.offset + 1
      [] f = "div" -> x \div C.offset
      [] f = "reset" -> 0
      [] OTHER -> x

-----------------------------------------------------------------------------
(* bor/core.py *)

\* compute_fingerprint with the time of the call (the last call made) in the
\* payload
compute_fingerprint_timestamped(name, input, config, version) ==
    content_hash(canonical_bytes_dict(
        [fn |-> name, input |-> input, config |-> config,
         version |-> <<version, result.op>>]))

\* BoRStep.compute_fingerprint: the payload is built from the step's fields
\* as they are when it is called
compute_fingerprint(name, input, config, version) ==
    content_hash(canonical_bytes_dict(
        [fn |-> name, input |-> input, config |-> config, version |-> version]))

\* BoRRun.__init__
BoRRun(S0, C, V) ==
    [heap |-> <<S0>>, initial_state |-> 1, config |-> C, code_version |-> V,
     steps |-> <<>>, final_state |-> None, proof |-> None]

\* the fingerprints of the run's steps, in order
fingerprints(r) == [i \in 1..Len(r.steps) |-> r.steps[i].fingerprint]

\* add_step that passes the initial state to every step function
add_step_unchained(r, f) ==
    IF ~callable(f) THEN [run |-> r, exc |-> "DeterminismError"]
    ELSE
      LET prev_state == r.initial_state
          x == r.heap[prev_state]
          heap1 == [r.heap EXCEPT ![prev_state] = fn_input_after(f, x, r.config)]
          config1 == fn_config_after(f, x, r.config)
          called == [r EXCEPT !.heap = heap1, !.config = config1]
      IN IF fn_raises(f, x, r.config)
         THEN [run |-> called, exc |-> "DeterminismError"]
         ELSE
           LET output_state == IF fn_returns_input(f) THEN prev_state
                               ELSE Len(heap1) + 1
               heap2 == IF fn_returns_input(f) THEN heap1
                        ELSE Append(heap1, fn_output(f, x, r.config))
               step == [fn_name |-> fn_name(f), input_state |-> prev_state,
                        code_version |-> r.code_version,
                        fingerprint |-> compute_fingerprint(fn_name(f),
                                           heap2[prev_state], config1, r.code_version)]
           IN [run |-> [called EXCEPT !.heap = heap2,
                                      !.steps = Append(r.steps, step),
                                      !.final_state = Some(output_state)],
               exc |-> "none"]

\* BoRRun.add_step.  Returns the run after the call and the exception raised
\* ("none" when it returns self).
add_step(r, f) ==
    IF ~callable(f) THEN [run |-> r, exc |-> "DeterminismError"]
    ELSE
      LET prev_state == IF r.steps = <<>> THEN r.initial_state ELSE r.final_state[1]
          x == r.heap[prev_state]
          \* the call fn(prev_state, self.config, self.code_version)
          heap1 == [r.heap EXCEPT ![prev_state] = fn_input_after(f, x, r.config)]
          config1 == fn_config_after(f, x, r.config)
          called == [r EXCEPT !.heap = heap1, !.config = config1]
      IN IF fn_raises(f, x, r.config)
         THEN [run |-> called, exc |-> "DeterminismError"]
         ELSE
           LET output_state == IF fn_returns_input(f) THEN prev_state
                               ELSE Len(heap1) + 1
               heap2 == IF fn_returns_input(f) THEN heap1
                        ELSE Append(heap1, fn_output(f, x, r.config))
               step == [fn_name |-> fn_name(f), input_state |-> prev_state,
                        code_version |-> r.code_version,
                        fingerprint |-> compute_fingerprint(fn_name(f),
                                           heap2[prev_state], config1, r.code_version)]
           IN [run |-> [called EXCEPT !.heap = heap2,
                                      !.steps = Append(r.steps, step),
                                      !.final_state = Some(output_state)],
               exc |-> "none"]

\* s reversed
reversed(s) == [i \in 1..Len(s) |-> s[Len(s) + 1 - i]]

\* finalize with the master taken over the fingerprints in reverse order
finalize_reversed(r) ==
    IF r.steps = <<>>
    THEN [run |-> r, exc |-> "DeterminismError", proof |-> None]
    ELSE LET concatenated == join(reversed(fingerprints(r)))
             master == content_hash(canonical_bytes_str(concatenated))
             proof == [stage_hashes |-> fingerprints(r), master |-> master]
         IN [run |-> [r EXCEPT !.proof = Some(proof)], exc |-> "none",
             proof |-> Some(proof)]

\* finalize with the master taken over the fingerprints as a collection: how
\* often each occurs, not where
finalize_unordered(r) ==
    IF r.steps = <<>>
    THEN [run |-> r, exc |-> "DeterminismError", proof |-> None]
    ELSE LET fps == fingerprints(r)
             counted == {<<fp, Cardinality({i \in 1..Len(fps) : fps[i] = fp})>> :
                            fp \in {fps[i] : i \in 1..Len(fps)}}
             master == content_hash(canonical_bytes_str(counted))
             proof == [stage_hashes |-> fps, master |-> master]
         IN [run |-> [r EXCEPT !.proof = Some(proof)], exc |-> "none",
             proof |-> Some(proof)]

\* finalize without the check for an empty step list
finalize_unchecked(r) ==
    LET concatenated == join(fingerprints(r))
        master == content_hash(canonical_bytes_str(concatenated))
        proof == [stage_hashes |-> fingerprints(r), master |-> master]
    IN [run |-> [r EXCEPT !.proof = Some(proof)], exc |-> "none",
        proof |-> Some(proof)]

\* finalize that chains the master of the proof the run already holds into
\* the new master
finalize_chained(r) ==
    IF r.steps = <<>>
    THEN [run |-> r, exc |-> "DeterminismError", proof |-> None]
    ELSE LET held == IF r.proof = None THEN <<>> ELSE r.proof[1].master
             concatenated == held \o join(fingerprints(r))
             master == content_hash(canonical_bytes_str(concatenated))
             proof == [stage_hashes |-> fingerprints(r), master |-> master]
         IN [run |-> [r EXCEPT !.proof = Some(proof)], exc |-> "none",
             proof |-> Some(proof)]

\* BoRRun.finalize.  Returns the run after the call, the exception raised and
\* the Proof returned.
finalize(r) ==
    IF r.steps = <<>>
    THEN [run |-> r, exc |-> "DeterminismError", proof |-> None]
    ELSE LET concatenated == join(fingerprints(r))
             master == content_hash(canonical_bytes_str(concatenated))
             proof == [stage_hashes |-> fingerprints(r), master |-> master]
         IN [run |-> [r EXCEPT !.proof = Some(proof)], exc |-> "none",
             proof |-> Some(proof)]

\* BoRRun.verify: self.finalize() replaces self.proof before the comparison,
\* so recomputed and self.proof are the same object.
verify(r) ==
    IF r.proof = None
    THEN [run |-> r, exc |-> "DeterminismError", ret |-> FALSE]
    ELSE LET fin == finalize(r)
             recomputed == fin.proof[1]
         IN IF recomputed.master # fin.run.proof[1].master
            THEN [run |-> fin.run, exc |-> "HashMismatchError", ret |-> FALSE]
            ELSE [run |-> fin.run, exc |-> "none", ret |-> TRUE]

\* what the run's fields hold, read through the references: the step list
\* (every step's config is the run's one config object) ...
step_list(r) ==
    [i \in 1..Len(r.steps) |->
        [fn_name |-> r.steps[i].fn_name,
         input_state |-> r.heap[r.steps[i].input_state],
         config |-> r.config,
         code_version |-> r.steps[i].code_version,
         fingerprint |-> r.steps[i].fingerprint]]

\* ... and the current final state
final_state(r) ==
    IF r.final_state = None THEN None ELSE Some(r.heap[r.final_state[1]])

-----------------------------------------------------------------------------
(* Inputs *)

InitialStates == {0, 3}
Configs == {[offset |-> 0], [offset |-> 2]}
Versions == {"v1.0", "v1.1"}

NoResult == [op |-> "init", exc |-> "none"]
NoCall == [op |-> "init", exc |-> "none"]
call(res) == [op |-> res.op, exc |-> res.exc]

Init ==
    /\ \E S0 \in InitialStates, C \in Configs, V \in Versions : run = BoRRun(S0, C, V)
    /\ result = NoResult
    /\ prev = NoCall
    /\ failed = FALSE
    /\ file = None
    /\ recorded = None
    /\ pair = None
    /\ store = None
    /\ saved = <<>>

\* run.add_step(f)
AddStep(f) ==
    /\ Len(run.steps) < MaxSteps
    /\ LET a == add_step(run, f)
       IN /\ run' = a.run
          /\ result' = [op |-> "add_step", fn |-> f, exc |-> a.exc]
          /\ failed' = (failed \/ a.exc # "none")
    /\ prev' = call(result)
    /\ UNCHANGED <<file, recorded, pair, store, saved>>

\* run.finalize()
Finalize ==
    /\ LET a == finalize(run)
       IN /\ run' = a.run
          /\ result' = [op |-> "finalize", exc |-> a.exc, proof |-> a.proof]
    /\ prev' = call(result)
    /\ UNCHANGED <<failed, file, recorded, pair, store, saved>>

\* run.verify()
Verify ==
    /\ LET a == verify(run)
       IN /\ run' = a.run
          /\ result' = [op |-> "verify", exc |-> a.exc, ret |-> a.ret]
    /\ prev' = call(result)
    /\ UNCHANGED <<failed, file, recorded, pair, store, saved>>

Next ==
    \/ \E f \in Fns : AddStep(f)
    \/ Finalize
    \/ Verify

Spec == Init /\ [][Next]_vars

-----------------------------------------------------------------------------
(* bor/verify.py and the recording of tests/test_verify.py *)

\* most stage functions of a recorded or replayed chain
MaxStages == 2

\* the step functions of the recorded chains and of the replayed chains
RecordedFns == {"add", "square", "reset"}
StageFns == {"add", "square", "add_v2", "reset"}

RecordedLists == UNION {[1..k -> RecordedFns] : k \in 0..MaxStages}
StageLists == UNION {[1..k -> StageFns] : k \in 0..MaxStages}

\* the run of tests/test_verify.py
ScenarioS0 == 3
ScenarioC == [offset |-> 2]
ScenarioV == "v1.0"

\* run.add_step(fn) for each fn of stages, in order, up to the first call
\* that raises; outputs are the contents of the objects the calls returned
RECURSIVE add_steps(_, _)
add_steps(r, stages) ==
    IF stages = <<>> THEN [run |-> r, exc |-> "none", outputs |-> <<>>]
    ELSE LET a == add_step(r, Head(stages))
         IN IF a.exc # "none"
            THEN [run |-> a.run, exc |-> a.exc, outputs |-> <<>>]
            ELSE LET rest == add_steps(a.run, Tail(stages))
                 IN [run |-> rest.run, exc |-> rest.exc,
                     outputs |-> <<final_state(a.run)[1]>> \o rest.outputs]

\* the character "x", which is no hex digit
XChar == <<<<"x", <<>>>>, 0>>

\* s[:i-1] + "x" + s[i:]
alter_char(s, i) == [s EXCEPT ![i] = XChar]

\* how the proof file written differs from the proof that finalize returned
Alterations ==
    {[kind |-> "none", at |-> 0], [kind |-> "no_master", at |-> 0],
     [kind |-> "no_stage_hashes", at |-> 0], [kind |-> "empty_stage_hashes", at |-> 0],
     [kind |-> "stage_hashes", at |-> 0]}
    \cup {[kind |-> "master", at |-> i] : i \in 1..HexLen}

\* the JSON object written to the proof file: a key that is absent is None
proof_file(proof, alt) ==
    [master |->
        CASE alt.kind = "master" -> Some(alter_char(proof.master, alt.at))
          [] alt.kind = "no_master" -> None
          [] OTHER -> Some(proof.master),
     stage_hashes |->
        CASE alt.kind = "no_stage_hashes" -> None
          [] alt.kind = "empty_stage_hashes" -> Some(<<>>)
          [] alt.kind = "stage_hashes" ->
                Some([proof.stage_hashes EXCEPT ![1] = alter_char(@, 1)])
          [] OTHER -> Some(proof.stage_hashes)]

\* verify_proof that returns the outcome of the comparison instead of raising
verify_proof_bool(f, S0, C, V, stages) ==
    LET raised(e) == [exc |-> e, ret |-> FALSE, warned |-> FALSE,
                      new_proof |-> None, outputs |-> <<>>]
    IN IF f = None THEN raised("FileNotFoundError")
       ELSE
         LET replay == add_steps(BoRRun(S0, C, V), stages)
             fin == finalize(replay.run)
         IN IF replay.exc # "none" THEN raised(replay.exc)
            ELSE IF fin.exc # "none" THEN raised(fin.exc)
            ELSE [exc |-> "none", ret |-> (Some(fin.proof[1].master) = f[1].master),
                  warned |-> FALSE, new_proof |-> fin.proof,
                  outputs |-> replay.outputs]

\* verify_proof that also raises when the stored stage hashes are not the
\* recomputed ones
verify_proof_strict(f, S0, C, V, stages) ==
    LET raised(e) == [exc |-> e, ret |-> FALSE, warned |-> FALSE,
                      new_proof |-> None, outputs |-> <<>>]
    IN IF f = None THEN raised("FileNotFoundError")
       ELSE
         LET proof_data == f[1]
             stored_master == proof_data.master
             stored_stage_hashes == IF proof_data.stage_hashes = None THEN <<>>
                                    ELSE proof_data.stage_hashes[1]
             replay == add_steps(BoRRun(S0, C, V), stages)
             fin == finalize(replay.run)
         IN IF replay.exc # "none" THEN raised(replay.exc)
            ELSE IF fin.exc # "none" THEN raised(fin.exc)
            ELSE LET new_proof == fin.proof[1]
                 IN IF \/ Some(new_proof.master) # stored_master
                       \/ stored_stage_hashes # new_proof.stage_hashes
                    THEN [exc |-> "HashMismatchError", ret |-> FALSE,
                          warned |-> FALSE, new_proof |-> fin.proof,
                          outputs |-> replay.outputs]
                    ELSE [exc |-> "none", ret |-> TRUE, warned |-> FALSE,
                          new_proof |-> fin.proof, outputs |-> replay.outputs]

\* verify_proof(proof_path, S0, C, V, stages), f being the content of the
\* file at proof_path (None when there is no file).  exc is the exception
\* raised ("none" when it returns), ret the value returned, warned whether
\* the stage-hash warning was printed, new_proof and outputs what the replay
\* computed.
verify_proof(f, S0, C, V, stages) ==
    LET raised(e) == [exc |-> e, ret |-> FALSE, warned |-> FALSE,
                      new_proof |-> None, outputs |-> <<>>]
    IN IF f = None THEN raised("FileNotFoundError")
       ELSE
         LET proof_data == f[1]
             stored_master == proof_data.master
             stored_stage_hashes == IF proof_data.stage_hashes = None THEN <<>>
                                    ELSE proof_data.stage_hashes[1]
             replay == add_steps(BoRRun(S0, C, V), stages)
             fin == finalize(replay.run)
         IN IF replay.exc # "none" THEN raised(replay.exc)
            ELSE IF fin.exc # "none" THEN raised(fin.exc)
            ELSE LET new_proof == fin.proof[1]
                 IN IF Some(new_proof.master) # stored_master
                    THEN [exc |-> "HashMismatchError", ret |-> FALSE,
                          warned |-> FALSE, new_proof |-> fin.proof,
                          outputs |-> replay.outputs]
                    ELSE [exc |-> "none", ret |-> TRUE,
                          warned |-> (stored_stage_hashes # <<>>
                                      /\ stored_stage_hashes # new_proof.stage_hashes),
                          new_proof |-> fin.proof, outputs |-> replay.outputs]

InitReplay ==
    /\ run = BoRRun(ScenarioS0, ScenarioC, ScenarioV)
    /\ result = NoResult
    /\ prev = NoCall
    /\ failed = FALSE
    /\ file = None
    /\ recorded = None
    /\ pair = None
    /\ store = None
    /\ saved = <<>>

\* the recording: the chain is run and finalized and the proof is written to
\* the proof file, as it is or altered
Record(stages, alt) ==
    /\ LET rec == add_steps(run, stages)
           fin == finalize(rec.run)
           exc == IF rec.exc # "none" THEN rec.exc ELSE fin.exc
       IN /\ run' = IF rec.exc # "none" THEN rec.run ELSE fin.run
          /\ file' = IF exc # "none" THEN None
                     ELSE Some(proof_file(fin.proof[1], alt))
          /\ result' = [op |-> "record", exc |-> exc]
          /\ recorded' = Some([stages |-> stages, outputs |-> rec.outputs,
                               alteration |-> alt])
          /\ failed' = (rec.exc # "none")
    /\ prev' = call(result)
    /\ UNCHANGED <<pair, store, saved>>

\* verify_proof(file, S0, C, V, stages)
VerifyProof(S0, C, V, stages) ==
    /\ LET v == verify_proof(file, S0, C, V, stages)
       IN result' = [op |-> "verify_proof", S0 |-> S0, C |-> C, V |-> V,
                     stages |-> stages, exc |-> v.exc, ret |-> v.ret,
                     warned |-> v.warned, new_proof |-> v.new_proof,
                     outputs |-> v.outputs]
    /\ prev' = call(result)
    /\ UNCHANGED <<run, failed, file, recorded, pair, store, saved>>

\* the test records once and then verifies once
NextReplay ==
    \/ /\ result.op = "init"
       /\ \E stages \in RecordedLists, alt \in Alterations : Record(stages, alt)
    \/ /\ result.op = "record"
       /\ \E S0 \in InitialStates, C \in Configs, V \in Versions,
             stages \in StageLists : VerifyProof(S0, C, V, stages)

SpecReplay == InitReplay /\ [][NextReplay]_vars

-----------------------------------------------------------------------------
(* finalize as a function of the ordered step fingerprints *)

\* step fingerprints: those of add and square on the states of the test
Fingerprints ==
    {compute_fingerprint(n, x, ScenarioC, ScenarioV) :
        n \in {"add", "square"}, x \in {3, 5}}

FingerprintLists == UNION {[1..k -> Fingerprints] : k \in 0..MaxStages}

\* a run whose recorded steps have the fingerprints fps, in order
run_of(fps) ==
    [BoRRun(ScenarioS0, ScenarioC, ScenarioV) EXCEPT
        !.steps = [i \in 1..Len(fps) |->
                      [fn_name |-> "add", input_state |-> 1,
                       code_version |-> ScenarioV, fingerprint |-> fps[i]]],
        !.final_state = IF fps = <<>> THEN None ELSE Some(1)]

InitOrder ==
    /\ run = BoRRun(ScenarioS0, ScenarioC, ScenarioV)
    /\ result = NoResult
    /\ prev = NoCall
    /\ failed = FALSE
    /\ file = None
    /\ recorded = None
    /\ \E a, b \in FingerprintLists :
          pair = Some([a |-> a, b |-> b, first |-> None, second |-> None])
    /\ store = None
    /\ saved = <<>>

\* finalize() on the run that recorded the first sequence
FinalizeFirst ==
    /\ pair[1].first = None
    /\ LET fin == finalize(run_of(pair[1].a))
       IN pair' = Some([pair[1] EXCEPT
                          !.first = Some([exc |-> fin.exc, proof |-> fin.proof])])
    /\ UNCHANGED <<run, result, prev, failed, file, recorded, store, saved>>

\* finalize() on the run that recorded the second sequence
FinalizeSecond ==
    /\ pair[1].second = None
    /\ LET fin == finalize(run_of(pair[1].b))
       IN pair' = Some([pair[1] EXCEPT
                          !.second = Some([exc |-> fin.exc, proof |-> fin.proof])])
    /\ UNCHANGED <<run, result, prev, failed, file, recorded, store, saved>>

NextOrder == FinalizeFirst \/ FinalizeSecond

SpecOrder == InitOrder /\ [][NextOrder]_vars

\* b is a reordering of a
IsPermutation(a, b) ==
    /\ Len(a) = Len(b)
    /\ \E p \in [1..Len(a) -> 1..Len(a)] :
          /\ \A i, j \in 1..Len(a) : i # j => p[i] # p[j]
          /\ \A i \in 1..Len(a) : b[i] = a[p[i]]

\* C5: the masters that finalize computes over two different sequences of
\* step fingerprints that are reorderings of each other are different.
C5_OrderSensitive ==
    (/\ pair # None
     /\ pair[1].first # None /\ pair[1].second # None
     /\ pair[1].a # pair[1].b
     /\ IsPermutation(pair[1].a, pair[1].b)) =>
        /\ pair[1].first[1].exc = "none" /\ pair[1].second[1].exc = "none"
        /\ pair[1].first[1].proof[1].master # pair[1].second[1].proof[1].master

\* both masters computed for two orders of the same two fingerprints
C5_Witness ==
    /\ pair # None
    /\ pair[1].first # None /\ pair[1].second # None
    /\ Len(pair[1].a) = 2
    /\ pair[1].a # pair[1].b
    /\ IsPermutation(pair[1].a, pair[1].b)
    /\ pair[1].first[1].proof[1].master # pair[1].second[1].proof[1].master

-----------------------------------------------------------------------------
(* Claims about one run: add_step, finalize, verify *)

\* C6: every Proof returned by finalize has as stage_hashes the fingerprints
\* of the run's steps, in order, and as master the hash of the concatenation
\* of its stage_hashes in that order.
C6_ProofFromStageHashes ==
    (result.op = "finalize" /\ result.exc = "none") =>
        LET proof == result.proof[1]
        IN /\ Len(proof.stage_hashes) = Len(run.steps)
           /\ \A i \in 1..Len(run.steps) :
                 proof.stage_hashes[i] = run.steps[i].fingerprint
           /\ proof.master =
                 content_hash(canonical_bytes_str(join(proof.stage_hashes)))
           /\ run.proof = result.proof

\* a finalize that returned a Proof for a run of two steps with different
\* fingerprints
C6_Witness ==
    /\ result.op = "finalize" /\ result.exc = "none"
    /\ Len(run.steps) = 2
    /\ run.steps[1].fingerprint # run.steps[2].fingerprint

\* C7: finalize on a run with no recorded step raises DeterminismError,
\* returns no Proof, and a run with no recorded step never holds a proof,
\* whatever add_step calls failed on it before.
C7_EmptyRunRejected ==
    (run.steps = <<>>) =>
        /\ run.proof = None
        /\ (result.op = "finalize" =>
              result.exc = "DeterminismError" /\ result.proof = None)

\* finalize called on a run without steps right after an add_step call that
\* raised
C7_Witness ==
    /\ run.steps = <<>>
    /\ prev.op = "add_step" /\ prev.exc = "DeterminismError"
    /\ result.op = "finalize"
    /\ result.exc = "DeterminismError"

\* C8: an add_step call that raises leaves the run's step list, current
\* final state and proof exactly as they were before the call.
C8_FailedAddStepAtomic ==
    [][((\E f \in Fns : AddStep(f)) /\ result'.exc # "none") =>
          /\ result'.exc = "DeterminismError"
          /\ step_list(run') = step_list(run)
          /\ final_state(run') = final_state(run)
          /\ run'.proof = run.proof]_vars

\* C9: once an add_step call on the run has raised, no later finalize on it
\* returns a Proof and no later add_step on it records a step.
C9_FailureIsFatal ==
    failed =>
        /\ (result.op = "finalize" => result.exc = "DeterminismError")
        /\ (result.op = "add_step" => result.exc = "DeterminismError")

\* C10: a finalize call that directly follows a finalize call that returned
\* a Proof returns a Proof with the same stage_hashes and master, and leaves
\* the run's steps and current final state unchanged.
C10_IdempotentFinalize ==
    [][(Finalize /\ result.op = "finalize" /\ result.exc = "none") =>
          /\ result'.exc = "none"
          /\ result'.proof[1].stage_hashes = result.proof[1].stage_hashes
          /\ result'.proof[1].master = result.proof[1].master
          /\ step_list(run') = step_list(run)
          /\ final_state(run') = final_state(run)]_vars

\* two finalize calls in a row on a run with steps
C10_Witness ==
    /\ prev.op = "finalize" /\ prev.exc = "none"
    /\ result.op = "finalize" /\ result.exc = "none"
    /\ Len(run.steps) >= 1

-----------------------------------------------------------------------------
(* Claims about verify_proof: a recorded proof file and its replay *)

\* the replay got as far as comparing the masters
Finalized == result.op = "verify_proof" /\ result.new_proof # None

\* the proof file holds the proof of the recorded run, unaltered
Unaltered == file # None /\ recorded[1].alteration.kind = "none"

\* the replay has the initial state, config and code version of the recording
SameParameters ==
    result.S0 = ScenarioS0 /\ result.C = ScenarioC /\ result.V = ScenarioV

\* the replayed functions have, position by position, the names of the
\* recorded ones
SameNames ==
    /\ Len(result.stages) = Len(recorded[1].stages)
    /\ \A i \in 1..Len(result.stages) :
          fn_name(result.stages[i]) = fn_name(recorded[1].stages[i])

\* C1: verify_proof never returns False; when the replay finalizes it raises
\* HashMismatchError whenever the stored master is not the recomputed master
\* (altered in one character, or absent) and returns True only when they
\* are equal.
C1_MismatchRaises ==
    (result.op = "verify_proof") =>
        /\ (result.exc = "none" => result.ret = TRUE)
        /\ (Finalized =>
              LET stored == file[1].master
                  recomputed == result.new_proof[1].master
              IN /\ (stored # Some(recomputed)) => result.exc = "HashMismatchError"
                 /\ (stored = Some(recomputed)) =>
                        (result.exc = "none" /\ result.ret = TRUE))

\* the replay of the recorded chain against a file whose master was altered
\* in its last character raised HashMismatchError
C1_Witness ==
    /\ Finalized /\ file # None
    /\ recorded[1].alteration = [kind |-> "master", at |-> HexLen]
    /\ SameParameters /\ result.stages = recorded[1].stages
    /\ result.exc = "HashMismatchError"

C3_OutputDivergenceDetected ==
    (Finalized /\ Unaltered /\ SameParameters /\ SameNames
        /\ \E i \in 1..Len(result.outputs) :
               result.outputs[i] # recorded[1].outputs[i]) =>
        result.exc = "HashMismatchError"

\* the stage names of the replay are those of the recording in another
\* order, all names distinct
Reordered ==
    LET a == recorded[1].stages
        b == result.stages
    IN /\ Len(a) = Len(b)
       /\ \E p \in [1..Len(a) -> 1..Len(a)] :
             /\ \A i, j \in 1..Len(a) : i # j => p[i] # p[j]
             /\ \A i \in 1..Len(a) : b[i] = a[p[i]]
       /\ \E i \in 1..Len(a) : fn_name(a[i]) # fn_name(b[i])
       /\ \A i, j \in 1..Len(a) : i # j => fn_name(a[i]) # fn_name(a[j])

\* C4: when the replay has another config, code version or initial state
\* than the recording, or the recorded functions in another order,
\* verify_proof raises HashMismatchError.
C4_ParameterDivergenceDetected ==
    (Finalized /\ Unaltered
        /\ \/ (result.stages = recorded[1].stages /\ ~SameParameters)
           \/ (SameParameters /\ Reordered)) =>
        result.exc = "HashMismatchError"

-----------------------------------------------------------------------------
(* Claims about the lifecycle of one run *)

\* the lifecycle state of a run: Empty without steps, Finalized once it holds
\* a proof, Active in between
phase(r) ==
    IF r.steps = <<>> THEN "Empty"
    ELSE IF r.proof = None THEN "Active" ELSE "Finalized"

\* C11: the run goes Empty -> Active -> Finalized: a successful add_step
\* makes an Empty run Active and keeps an Active run Active, finalize makes
\* an Active run Finalized, and no call changes the step list of a Finalized
\* run or takes it out of Finalized.
C11_Lifecycle ==
    [][/\ (phase(run) = "Empty" => phase(run') \in {"Empty", "Active"})
       /\ (phase(run) = "Active" => phase(run') \in {"Active", "Finalized"})
       /\ ((\E f \in Fns : AddStep(f)) /\ result'.exc = "none"
              /\ phase(run) \in {"Empty", "Active"} => phase(run') = "Active")
       /\ (Finalize /\ phase(run) = "Active" => phase(run') = "Finalized")
       /\ (phase(run) = "Finalized" =>
              phase(run') = "Finalized" /\ run'.steps = run.steps)]_vars

\* C12: verify() on a run that holds a proof raises HashMismatchError
\* whenever the master recomputed from the recorded steps is not the master
\* of the proof the run held before the call, and returns True only when
\* the two are equal.
C12_VerifyDetectsMismatch ==
    [][(Verify /\ run.proof # None) =>
          LET held == run.proof[1].master
              recomputed == content_hash(canonical_bytes_str(join(fingerprints(run))))
          IN /\ (recomputed # held => result'.exc = "HashMismatchError")
             /\ (result'.exc = "none" => recomputed = held)]_vars

\* C19: whenever the run holds a proof, its stage_hashes are the
\* fingerprints of the run's current steps, in order, and its master is the
\* hash of their concatenation.
C19_ProofMatchesSteps ==
    (run.proof # None) =>
        /\ run.proof[1].stage_hashes = fingerprints(run)
        /\ run.proof[1].master =
              content_hash(canonical_bytes_str(join(fingerprints(run))))

\* C15: step chaining.  A successful add_step passes to fn the initial state
\* object when the run has no step and the current final state object (the
\* output of the last successful step) otherwise; it appends exactly one step
\* behind the steps already held and makes fn's output the current final
\* state.  No other call changes the number of steps, and a successful
\* finalize returns one stage hash per step, in the order of the steps.
C15_StepChaining ==
    [][/\ \A f \in Fns :
             (AddStep(f) /\ result'.exc = "none") =>
                LET n == Len(run.steps)
                    arg == IF n = 0 THEN run.initial_state ELSE run.final_state[1]
                IN /\ Len(run'.steps) = n + 1
                   /\ SubSeq(run'.steps, 1, n) = run.steps
                   /\ run'.steps[n + 1].input_state = arg
                   /\ run'.steps[n + 1].fn_name = fn_name(f)
                   /\ final_state(run') =
                         Some(fn_output(f, run.heap[arg], run.config))
       /\ (result'.exc # "none" \/ result'.op # "add_step" =>
              Len(run'.steps) = Len(run.steps))
       /\ (Finalize /\ result'.exc = "none" =>
              /\ Len(result'.proof[1].stage_hashes) = Len(run.steps)
              /\ \A i \in 1..Len(run.steps) :
                    result'.proof[1].stage_hashes[i] = run.steps[i].fingerprint)]_vars

\* the run of the example: add takes 3 to 5, square takes 5 to 25
C15_Witness ==
    /\ result.op = "add_step" /\ result.exc = "none"
    /\ Len(run.steps) = 2
    /\ run.steps[1].input_state = run.initial_state
    /\ run.steps[2].input_state # run.initial_state
    /\ step_list(run)[1].input_state = 3
    /\ step_list(run)[2].input_state = 5
    /\ final_state(run) = Some(25)

\* C16: a step records the input state as it was before fn was invoked.  After
\* a successful add_step the input state held by the new step is the content
\* the state had before the call, and the step's fingerprint is the hash of
\* {fn name, that content, config, version}, also when fn modifies the state
\* object it is given.
C16_InputSnapshot ==
    [][\A f \in Fns :
          (AddStep(f) /\ result'.exc = "none") =>
             LET n == Len(run.steps)
                 arg == IF n = 0 THEN run.initial_state ELSE run.final_state[1]
                 before == run.heap[arg]
             IN /\ step_list(run')[n + 1].input_state = before
                /\ run'.steps[n + 1].fingerprint =
                      compute_fingerprint(fn_name(f), before, run'.config,
                                          run'.code_version)]_vars

\* C17: config and code version are shared immutably.  No call changes the
\* config or the code version the run holds, so that every step carries the
\* values the run was constructed with, and the fingerprint of a new step is
\* computed over the config and the version the run held before the call,
\* whatever the step function does with the config it is passed.
C17_ConfigImmutable ==
    [][/\ run'.config = run.config
       /\ run'.code_version = run.code_version
       /\ \A i \in 1..Len(run'.steps) :
             /\ step_list(run')[i].config = run.config
             /\ step_list(run')[i].code_version = run.code_version
       /\ \A f \in Fns :
             (AddStep(f) /\ result'.exc = "none") =>
                LET new == run'.steps[Len(run.steps) + 1]
                IN new.fingerprint =
                      compute_fingerprint(fn_name(f), run'.heap[new.input_state],
                                          run.config, run.code_version)]_vars

\* C18: a stage-hash anomaly is not fatal.  Whenever the replay finalizes and
\* the master stored in the proof file equals the recomputed master,
\* verify_proof returns True without raising, whatever the stored stage
\* hashes are: the recomputed ones, different ones, an empty list or no
\* stage_hashes key at all.
C18_StageHashAnomalyNonFatal ==
    (/\ result.op = "verify_proof"
     /\ file # None
     /\ result.new_proof # None
     /\ file[1].master = Some(result.new_proof[1].master))
        => (result.exc = "none" /\ result.ret = TRUE)

\* a verification of a file whose stage hashes were altered and whose master
\* is the recomputed one: it warns and returns True
C18_Witness ==
    /\ result.op = "verify_proof"
    /\ recorded[1].alteration.kind = "stage_hashes"
    /\ file # None
    /\ result.new_proof # None
    /\ file[1].stage_hashes # Some(result.new_proof[1].stage_hashes)
    /\ file[1].master = Some(result.new_proof[1].master)
    /\ result.warned
    /\ result.ret = TRUE

-----------------------------------------------------------------------------
(* bor/store.py *)

\* most save calls made on a store
MaxSaves == 2

\* labels: plain file-name stems
Labels == {"a", "b"}

\* the proofs saved: those finalize returns for three chains of the test's run
StoredChains == {<<"add">>, <<"square">>, <<"add", "square">>}
StoredProofs ==
    {finalize(add_steps(BoRRun(ScenarioS0, ScenarioC, ScenarioV), st).run).proof[1] :
        st \in StoredChains}

\* a character of JSON text that is no character of a string's content
punct(c) == <<<<c, <<>>>>, 0>>
Quote == punct("quote")

\* json.dumps(s) for a string s (a sequence of characters without a quote)
json_dumps_str(s) == <<Quote>> \o s \o <<Quote>>

\* json.loads of the text of a string
json_loads_str(t) == SubSeq(t, 2, Len(t) - 1)

\* json.dumps(l) for a list l of strings: ["..", ".."]
RECURSIVE json_dumps_items(_)
json_dumps_items(l) ==
    IF l = <<>> THEN <<>>
    ELSE IF Len(l) = 1 THEN json_dumps_str(l[1])
    ELSE json_dumps_str(l[1]) \o <<punct(",")>> \o json_dumps_items(Tail(l))

json_dumps_list(l) == <<punct("[")>> \o json_dumps_items(l) \o <<punct("]")>>

\* json.loads of the text of a list of strings: the strings are what stands
\* between the 1st and 2nd quote, the 3rd and 4th, ...
json_loads_list(t) ==
    LET quotes == {i \in 1..Len(t) : t[i] = Quote}
        nth(k) == CHOOSE i \in quotes : Cardinality({j \in quotes : j < i}) = k - 1
    IN [k \in 1..(Cardinality(quotes) \div 2) |->
           SubSeq(t, nth(2 * k - 1) + 1, nth(2 * k) - 1)]

\* json.dumps(data, indent=2) of save's dict, member by member
json_dumps_data(label, proof) ==
    [label |-> json_dumps_str(<<punct(label)>>),
     master |-> json_dumps_str(proof.master),
     stage_hashes |-> json_dumps_list(proof.stage_hashes)]

\* json.loads of the text of a proof file
json_loads_data(t) ==
    [label |-> json_loads_str(t.label)[1][1][1],
     master |-> json_loads_str(t.master),
     stage_hashes |-> json_loads_list(t.stage_hashes)]

\* ProofStore.__init__ on a fresh root: files are the {label}.json files of
\* root (None where there is none), rows the rows of table proofs of
\* proofs.db in the order they were inserted
ProofStore(use_sqlite) ==
    [use_sqlite |-> use_sqlite, files |-> [l \in Labels |-> None], rows |-> <<>>]

\* ProofStore.save, now being CURRENT_TIMESTAMP at the time of the call
save(S, label, proof, now) ==
    IF S.use_sqlite
    THEN [S EXCEPT !.rows = Append(@,
             [id |-> Len(S.rows) + 1, label |-> label, master |-> proof.master,
              stage_hashes |-> json_dumps_list(proof.stage_hashes),
              timestamp |-> now])]
    ELSE [S EXCEPT !.files[label] = Some(json_dumps_data(label, proof))]

\* load that takes the first row inserted under the label
load_oldest(S, label) ==
    IF S.use_sqlite
    THEN LET found == {i \in 1..Len(S.rows) : S.rows[i].label = label}
         IN IF found = {} THEN [exc |-> "FileNotFoundError", proof |-> None]
            ELSE LET row == S.rows[CHOOSE i \in found :
                                      \A j \in found : S.rows[j].id >= S.rows[i].id]
                 IN [exc |-> "none",
                     proof |-> Some([stage_hashes |-> json_loads_list(row.stage_hashes),
                                     master |-> row.master])]
    ELSE IF S.files[label] = None THEN [exc |-> "FileNotFoundError", proof |-> None]
         ELSE LET d == json_loads_data(S.files[label][1])
              IN [exc |-> "none",
                  proof |-> Some([stage_hashes |-> d.stage_hashes, master |-> d.master])]

\* ProofStore.load: the exception raised ("none" when it returns) and the
\* Proof returned
load(S, label) ==
    IF S.use_sqlite
    THEN LET found == {i \in 1..Len(S.rows) : S.rows[i].label = label}
         IN IF found = {} THEN [exc |-> "FileNotFoundError", proof |-> None]
            ELSE LET row == S.rows[CHOOSE i \in found :
                                      \A j \in found : S.rows[j].id <= S.rows[i].id]
                 IN [exc |-> "none",
                     proof |-> Some([stage_hashes |-> json_loads_list(row.stage_hashes),
                                     master |-> row.master])]
    ELSE IF S.files[label] = None THEN [exc |-> "FileNotFoundError", proof |-> None]
         ELSE LET d == json_loads_data(S.files[label][1])
              IN [exc |-> "none",
                  proof |-> Some([stage_hashes |-> d.stage_hashes, master |-> d.master])]

\* the orders in which n things can be listed
Orders(n) == {p \in [1..n -> 1..n] : \A i, j \in 1..n : p[i] = p[j] => i = j}

\* ProofStore.list_proofs: the lists it can return.  Rows of equal timestamp
\* come in an order that ORDER BY timestamp leaves open, and so do the files
\* that glob yields.
list_proofs(S) ==
    IF S.use_sqlite
    THEN {[i \in 1..Len(S.rows) |-> S.rows[p[i]].label] :
             p \in {q \in Orders(Len(S.rows)) :
                       \A i, j \in 1..Len(S.rows) :
                          i < j => S.rows[q[i]].timestamp >= S.rows[q[j]].timestamp}}
    ELSE LET stems == {l \in Labels : S.files[l] # None}
         IN {s \in [1..Cardinality(stems) -> stems] :
                \A i, j \in 1..Cardinality(stems) : s[i] = s[j] => i = j}

InitStore ==
    /\ run = BoRRun(ScenarioS0, ScenarioC, ScenarioV)
    /\ result = NoResult
    /\ prev = NoCall
    /\ failed = FALSE
    /\ file = None
    /\ recorded = None
    /\ pair = None
    /\ \E use_sqlite \in BOOLEAN : store = Some(ProofStore(use_sqlite))
    /\ saved = <<>>

\* the time of the last insert
last_timestamp(S) == IF S.rows = <<>> THEN 0 ELSE S.rows[Len(S.rows)].timestamp

\* store.save(label, proof), in the second of the last insert or the next one
Save(label, proof, tick) ==
    /\ Len(saved) < MaxSaves
    /\ store' = Some(save(store[1], label, proof, last_timestamp(store[1]) + tick))
    /\ saved' = Append(saved, [label |-> label, proof |-> proof])
    /\ result' = [op |-> "save", label |-> label, exc |-> "none"]
    /\ UNCHANGED <<run, prev, failed, file, recorded, pair>>

\* store.load(label)
Load(label) ==
    /\ LET l == load(store[1], label)
       IN result' = [op |-> "load", label |-> label, exc |-> l.exc, proof |-> l.proof]
    /\ UNCHANGED <<run, prev, failed, file, recorded, pair, store, saved>>

\* store.list_proofs()
ListProofs ==
    /\ \E labels \in list_proofs(store[1]) :
          result' = [op |-> "list_proofs", exc |-> "none", labels |-> labels]
    /\ UNCHANGED <<run, prev, failed, file, recorded, pair, store, saved>>

NextStore ==
    \/ \E label \in Labels, proof \in StoredProofs, tick \in {0, 1} :
          Save(label, proof, tick)
    \/ \E label \in Labels : Load(label)
    \/ ListProofs

SpecStore == InitStore /\ [][NextStore]_vars

-----------------------------------------------------------------------------
(* Claims about the store *)

\* the save calls made under label, by their place in the sequence of calls
saves_under(label) == {i \in 1..Len(saved) : saved[i].label = label}

\* the proof most recently saved under label
last_saved(label) ==
    saved[CHOOSE i \in saves_under(label) : \A j \in saves_under(label) : j <= i].proof

\* C13: store round trip, last write wins.  In the JSON mode and in the SQLite
\* mode, load(label) after save calls under that label returns a Proof whose
\* stage_hashes and master are those of the proof most recently saved under
\* the label, and a save under one label leaves what load returns for every
\* other label as it was.
C13_RoundTripLastWriteWins ==
    [][/\ (result'.op = "load" /\ saves_under(result'.label) # {}) =>
             /\ result'.exc = "none"
             /\ result'.proof[1].stage_hashes = last_saved(result'.label).stage_hashes
             /\ result'.proof[1].master = last_saved(result'.label).master
       /\ (saved' # saved =>
             \A other \in Labels \ {result'.label} :
                load(store'[1], other) = load(store[1], other))]_vars

\* a load from the SQLite store after two saves of different proofs under the
\* label loaded: it returns the second
C13_Witness ==
    /\ result.op = "load"
    /\ store[1].use_sqlite
    /\ Len(saved) = 2
    /\ saved[1].label = result.label /\ saved[2].label = result.label
    /\ saved[1].proof # saved[2].proof
    /\ result.proof = Some(saved[2].proof)

\* how often label stands in the list labels
occurrences(labels, label) == Cardinality({i \in 1..Len(labels) : labels[i] = label})

\* the store of mode use_sqlite after the save calls saves
RECURSIVE after_saves(_, _)
after_saves(use_sqlite, saves) ==
    IF saves = <<>> THEN ProofStore(use_sqlite)
    ELSE LET S == after_saves(use_sqlite, SubSeq(saves, 1, Len(saves) - 1))
             last == saves[Len(saves)]
         IN save(S, last.label, last.proof, last_timestamp(S))

\* C14: label is a unique key in both backends.  list_proofs returns every
\* label saved exactly once and no other label, and the collection it returns
\* is the one the store of the other mode returns after the same save calls.
C14_LabelIsUniqueKey ==
    (result.op = "list_proofs") =>
        /\ \A label \in Labels :
              occurrences(result.labels, label) =
                 IF saves_under(label) # {} THEN 1 ELSE 0
        /\ \A listed \in list_proofs(after_saves(~store[1].use_sqlite, saved)) :
              \A label \in Labels :
                 occurrences(listed, label) = occurrences(result.labels, label)

====
